---- MODULE Spec2Model ----
(***************************************************************************)
(* Board bring-up of the NXP LPC2119 machine (hw/arm/lpc2119.c):           *)
(* lpc2119_init step by step, the interrupt callback pic_handler, and the  *)
(* memory accesses and interrupt signals that follow bring-up.             *)
(*                                                                         *)
(* 32-bit quantities (addresses, registers, instruction words) are kept as *)
(* records [hi, lo] of two 16-bit halves, since several of them            *)
(* (0xE000C000, 0xe3a00000) exceed the model checker's integer range.      *)
(***************************************************************************)
EXTENDS Integers, Sequences, FiniteSets

VARIABLES
    pc,            \* position of lpc2119_init: the step to run next
    exit_status,   \* status passed to exit(), -1 while the process lives
    failed,        \* the step whose failure was reported, "none" otherwise
    hist,          \* the bring-up steps completed so far, in order
    big_endian,    \* byte order of the host the machine is built for
    system_memory, \* the subregions added to the system address space
    cpu,           \* s->cpu and the part of its state the board touches
    flash,         \* s->flash
    sram,          \* s->sram
    pic,           \* s->pic: number of allocated lines, 0 while NULL
    uart,          \* the serial device: created flag and its interrupt line
    lineLevel,     \* most recently signalled level of each line
    lastSignal,    \* the most recent interrupt signal and its outcome
    prevSignal,    \* the interrupt signal before the most recent one
    lastAccess,    \* the most recent memory access and its outcome
    nOps           \* number of run-time operations performed after bring-up

vars == <<pc, exit_status, failed, hist, big_endian, system_memory, cpu,
          flash, sram, pic, uart, lineLevel, lastSignal, prevSignal, lastAccess,
          nOps>>

----------------------------------------------------------------------------
(* Bounds of the model *)

\* run-time operations (signals, reads, writes) explored after bring-up
MaxOps == 3
\* largest interrupt level value signalled (levels are 0..MaxLevel)
MaxLevel == 1

----------------------------------------------------------------------------
(* 32-bit values as two 16-bit halves *)

Half == 2 ^ 16

W32(hi, lo) == [hi |-> hi, lo |-> lo]

\* a + n without wrap-around (interval ends may equal 2^32: hi = Half)
AddrAdd(a, n) ==
    LET s == a.lo + n
    IN  [hi |-> a.hi + (s \div Half), lo |-> s % Half]

\* a + n as a uint32_t
U32Add(a, n) ==
    LET r == AddrAdd(a, n)
    IN  [hi |-> r.hi % Half, lo |-> r.lo]

AddrLT(a, b) == a.hi < b.hi \/ (a.hi = b.hi /\ a.lo < b.lo)
AddrLE(a, b) == a = b \/ AddrLT(a, b)

\* a - base, for a inside a region starting at base
AddrOffset(a, base) == (a.hi - base.hi) * Half + (a.lo - base.lo)

----------------------------------------------------------------------------
(* Memory map and sizes *)

KiB == 1024

FLASH_BASE == W32(0, 0)
\* variant: SRAM based at 0x00010000, inside the flash window
SRAM_BASE_InFlash == W32(1, 0)
SRAM_BASE == W32(16384, 0)
UART0_BASE == W32(57344, 49152)

FLASH_SIZE == 128 * KiB
SRAM_SIZE == 16 * KiB

\* serial_mm_init(system_memory, UART0_BASE, 2, ...): register shift
UART_REGSHIFT == 2
\* the serial device maps 8 registers, each 1 << regshift bytes apart
UART_NREGS == 8
UART_SIZE == UART_NREGS * (2 ^ UART_REGSHIFT)

\* qemu_allocate_irqs(pic_handler, s->cpu, 32)
NUM_IRQS == 32

test_program ==
    << W32(58272, 0),        \* 0xe3a00000  mov r0, #0
       W32(58272, 4097),     \* 0xe3a01001  mov r1, #1
       W32(58752, 4096),     \* 0xe5801000  str r1, [r0]
       W32(60159, 65534) >>  \* 0xeafffffe  b .

\* variant: the element count passed to memcpy instead of the byte count
SizeofTestProgram_Elems == Len(test_program)

\* sizeof(test_program)
SizeofTestProgram == 4 * Len(test_program)

ARM_CPU_MODE_SVC == 19
CPSR_F == 64
CPSR_I == 128
CPSR_M == 31

----------------------------------------------------------------------------
(* RAM-backed memory regions.  A region's bytes are kept sparsely: data    *)
(* maps the offsets holding a non-zero byte to that byte, every other      *)
(* offset in [0, size) reads as zero.                                      *)

NoBytes == [o \in {} |-> 0]

NoRegion == [init |-> FALSE, size |-> 0, readonly |-> FALSE, data |-> NoBytes]

\* memory_region_init_ram_nomigrate(mr, NULL, name, size, &err), on success
memory_region_init_ram(size) ==
    [init |-> TRUE, size |-> size, readonly |-> FALSE, data |-> NoBytes]

\* the byte at offset off of the region's RAM
ReadByte(mr, off) == IF off \in DOMAIN mr.data THEN mr.data[off] ELSE 0

\* store byte b at offset off of the region's RAM
PokeByte(mr, off, b) ==
    LET dom == IF b = 0 THEN DOMAIN mr.data \ {off}
                        ELSE DOMAIN mr.data \cup {off}
    IN  [mr EXCEPT !.data = [o \in dom |-> IF o = off THEN b ELSE mr.data[o]]]

\* byte k (0..3, in memory order) of a 32-bit word on the host
WordByte(w, k, be) ==
    LET i == IF be THEN 3 - k ELSE k      \* significance of the byte
        h == IF i < 2 THEN w.lo ELSE w.hi
    IN  IF i % 2 = 0 THEN h % 256 ELSE h \div 256

\* the 32-bit word the host reads at offset off of the region's RAM
ReadWord(mr, off, be) ==
    LET b(k) == ReadByte(mr, off + (IF be THEN 3 - k ELSE k))
    IN  W32(b(3) * 256 + b(2), b(1) * 256 + b(0))

\* byte i of the object representation of a uint32_t array
ArrayByte(words, i, be) == WordByte(words[(i \div 4) + 1], i % 4, be)

\* memcpy(ram_ptr, words, n): copy the first n bytes of the array to offset
\* 0, byte i of the array going to offset i; the other bytes are kept
memcpy(mr, words, n, be) ==
    LET copied == 0 .. (n - 1)
        byte(o) == IF o \in copied THEN ArrayByte(words, o, be)
                                   ELSE mr.data[o]
        dom == {o \in DOMAIN mr.data \cup copied : byte(o) # 0}
    IN  [mr EXCEPT !.data = [o \in dom |-> byte(o)]]

\* memory_region_set_readonly(mr, readonly)
memory_region_set_readonly(mr, ro) == [mr EXCEPT !.readonly = ro]

\* memory_region_add_subregion(system_memory, base, mr): the call returns
\* nothing and the board checks nothing; the subregion is simply added
memory_region_add_subregion(mem, base, name, size) ==
    mem \cup {[name |-> name, base |-> base, size |-> size]}

\* the subregions whose interval [base, base + size) holds addr
RegionsAt(mem, addr) ==
    {r \in mem : AddrLE(r.base, addr) /\ AddrLT(addr, AddrAdd(r.base, r.size))}

\* two subregions' intervals intersect
Overlap(r1, r2) ==
    /\ AddrLT(r1.base, AddrAdd(r2.base, r2.size))
    /\ AddrLT(r2.base, AddrAdd(r1.base, r1.size))

----------------------------------------------------------------------------
(* The processor, as far as the board touches it *)

\* the register file an architectural reset leaves: r13 = 0, r15 = 0 (the
\* reset vector), Supervisor mode with IRQ and FIQ masked
ArchResetRegs ==
    [regs13 |-> W32(0, 0), regs15 |-> W32(0, 0),
     cpsr |-> ARM_CPU_MODE_SVC + CPSR_F + CPSR_I]

NoCpu ==
    [created |-> FALSE, regs13 |-> W32(0, 0), regs15 |-> W32(0, 0), cpsr |-> 0,
     hard |-> FALSE, nInterrupt |-> 0, nResetInterrupt |-> 0]

\* cpu_create(machine->cpu_type), on success: a realized, reset processor
cpu_create ==
    [created |-> TRUE, regs13 |-> ArchResetRegs.regs13,
     regs15 |-> ArchResetRegs.regs15, cpsr |-> ArchResetRegs.cpsr,
     hard |-> FALSE, nInterrupt |-> 0, nResetInterrupt |-> 0]

\* cpu_interrupt(CPU(cpu), CPU_INTERRUPT_HARD)
cpu_interrupt(c) ==
    [c EXCEPT !.hard = TRUE, !.nInterrupt = @ + 1]

\* cpu_reset_interrupt(CPU(cpu), CPU_INTERRUPT_HARD)
cpu_reset_interrupt(c) ==
    [c EXCEPT !.hard = FALSE, !.nResetInterrupt = @ + 1]

\* cpu_reset(CPU(s->cpu)): pending interrupts are dropped; the reset entry
\* either keeps the registers the board pre-set or puts the register file
\* back to the architectural defaults
cpu_reset(c, preserve) ==
    IF preserve
    THEN [c EXCEPT !.hard = FALSE]
    ELSE [c EXCEPT !.hard = FALSE,
                   !.regs13 = ArchResetRegs.regs13,
                   !.regs15 = ArchResetRegs.regs15,
                   !.cpsr = ArchResetRegs.cpsr]

\* variant: the IRQ mask bit left out of the status register value
ConfigureBootState_NoIrqMask(c) ==
    [c EXCEPT !.regs13 = U32Add(SRAM_BASE, SRAM_SIZE),
              !.regs15 = FLASH_BASE,
              !.cpsr = ARM_CPU_MODE_SVC + CPSR_F]

\* the boot state lpc2119_init writes into env
ConfigureBootState(c) ==
    [c EXCEPT !.regs13 = U32Add(SRAM_BASE, SRAM_SIZE),
              !.regs15 = FLASH_BASE,
              !.cpsr = ARM_CPU_MODE_SVC + CPSR_F + CPSR_I]

\* bit tests on the status register
CpsrMode(x) == x % (CPSR_M + 1)
CpsrHas(x, bit) == (x \div bit) % 2 = 1

\* variant: the else branch missing, a lowered line is never forwarded
pic_handler_NoDeassert(c, n, level) ==
    IF level # 0 THEN cpu_interrupt(c) ELSE c

\* variant: a level kept per line, only a change of the line's level is
\* forwarded
pic_handler_PerLine(c, n, level) ==
    IF n \in DOMAIN lineLevel /\ lineLevel[n] = (level # 0) THEN c
    ELSE IF level # 0 THEN cpu_interrupt(c) ELSE cpu_reset_interrupt(c)

\* pic_handler(opaque, n, level)
pic_handler(c, n, level) ==
    IF level # 0 THEN cpu_interrupt(c) ELSE cpu_reset_interrupt(c)

----------------------------------------------------------------------------
(* Inputs of the run-time operations *)

Lines == 0 .. (NUM_IRQS - 1)
\* the lines signalled: the UART's line, its neighbour and the last one
SignalLines == {0, 1, NUM_IRQS - 1}
\* indexes just outside the allocated array
OutOfRangeLines == {-1, NUM_IRQS}
Levels == 0 .. MaxLevel

\* addresses accessed: the ends of flash, the first address past it, the
\* start of SRAM and the UART's first register
AddrInputs ==
    {FLASH_BASE, AddrAdd(FLASH_BASE, FLASH_SIZE - 1),
     AddrAdd(FLASH_BASE, FLASH_SIZE), SRAM_BASE, UART0_BASE}
ByteInputs == {0, 170}

\* a signal's record: the line and level signalled, the line's level before
\* it, what became of the call and how often it invoked cpu_interrupt and
\* cpu_reset_interrupt
NoSignal == [n |-> 0, level |-> 0, was |-> FALSE, source |-> "none",
             outcome |-> "none", asserts |-> 0, deasserts |-> 0]

\* the peripheral holding line l: serial_mm_init is handed s->pic[uart.irq],
\* and the board hands no other line to anything
LineSource(l) == IF uart.created /\ uart.irq = l THEN "uart" ELSE "none"

SignalRecord(n, level, was, outcome, c, c2) ==
    [n |-> n, level |-> level, was |-> was, source |-> LineSource(n),
     outcome |-> outcome,
     asserts |-> c2.nInterrupt - c.nInterrupt,
     deasserts |-> c2.nResetInterrupt - c.nResetInterrupt]
NoAccess == [op |-> "none", addr |-> W32(0, 0), value |-> 0,
             result |-> "none"]

----------------------------------------------------------------------------
(* Initial state: the machine object before lpc2119_init runs *)

Init ==
    /\ pc = "get_system_memory"
    /\ exit_status = -1
    /\ failed = "none"
    /\ hist = << >>
    /\ big_endian \in BOOLEAN
    /\ system_memory = {}
    /\ cpu = NoCpu
    /\ flash = NoRegion
    /\ sram = NoRegion
    /\ pic = 0
    /\ uart = [created |-> FALSE, irq |-> -1]
    /\ lineLevel = [l \in Lines |-> FALSE]
    /\ lastSignal = NoSignal
    /\ prevSignal = NoSignal
    /\ lastAccess = NoAccess
    /\ nOps = 0

runtime_vars == <<lineLevel, lastSignal, prevSignal, lastAccess, nOps>>

\* a step of lpc2119_init returns and bring-up moves on to the next one
Proceed(step, next) ==
    /\ pc' = next
    /\ hist' = Append(hist, step)
    /\ UNCHANGED <<exit_status, failed>>

\* error_report(...); exit(1);
Exit1(step) ==
    /\ pc' = "exit"
    /\ exit_status' = 1
    /\ failed' = step
    /\ UNCHANGED hist

----------------------------------------------------------------------------
(* lpc2119_init, one action per step *)

GetSystemMemory ==
    /\ pc = "get_system_memory"
    /\ \E ok \in BOOLEAN :
         IF ok THEN Proceed("get_system_memory", "cpu_create")
               ELSE Exit1("get_system_memory")
    /\ UNCHANGED <<big_endian, system_memory, cpu, flash, sram, pic, uart,
                   runtime_vars>>

\* variant: the failure is reported but exit(1) is missing, bring-up goes
\* on with s->cpu NULL
CpuCreate_NoExit ==
    /\ pc = "cpu_create"
    /\ \E ok \in BOOLEAN :
         IF ok THEN /\ cpu' = cpu_create
                    /\ Proceed("cpu_create", "flash_init")
               ELSE /\ UNCHANGED <<cpu, exit_status, hist>>
                    /\ failed' = "cpu_create"
                    /\ pc' = "flash_init"
    /\ UNCHANGED <<big_endian, system_memory, flash, sram, pic, uart,
                   runtime_vars>>

CpuCreate ==
    /\ pc = "cpu_create"
    /\ \E ok \in BOOLEAN :
         IF ok THEN /\ cpu' = cpu_create
                    /\ Proceed("cpu_create", "flash_init")
               ELSE /\ UNCHANGED cpu
                    /\ Exit1("cpu_create")
    /\ UNCHANGED <<big_endian, system_memory, flash, sram, pic, uart,
                   runtime_vars>>

FlashInit ==
    /\ pc = "flash_init"
    /\ \E ok \in BOOLEAN :
         IF ok THEN /\ flash' = memory_region_init_ram(FLASH_SIZE)
                    /\ Proceed("flash_init", "flash_load")
               ELSE /\ UNCHANGED flash
                    /\ Exit1("flash_init")
    /\ UNCHANGED <<big_endian, system_memory, cpu, sram, pic, uart,
                   runtime_vars>>

\* variant: the copy left out, flash goes on empty
FlashLoad_Missing ==
    /\ pc = "flash_load"
    /\ Proceed("flash_load", "flash_readonly")
    /\ UNCHANGED <<big_endian, system_memory, cpu, flash, sram, pic, uart,
                   runtime_vars>>

\* sizeof(test_program) bytes copied to the start of the region's RAM; the
\* copy has no failure path and the region was created with FLASH_SIZE bytes
FlashLoad ==
    /\ pc = "flash_load"
    /\ flash' = memcpy(flash, test_program, SizeofTestProgram, big_endian)
    /\ Proceed("flash_load", "flash_readonly")
    /\ UNCHANGED <<big_endian, system_memory, cpu, sram, pic, uart,
                   runtime_vars>>

\* variant: flash left writable
FlashSetReadonly_NotSealed ==
    /\ pc = "flash_readonly"
    /\ flash' = memory_region_set_readonly(flash, FALSE)
    /\ Proceed("flash_readonly", "flash_map")
    /\ UNCHANGED <<big_endian, system_memory, cpu, sram, pic, uart,
                   runtime_vars>>

FlashSetReadonly ==
    /\ pc = "flash_readonly"
    /\ flash' = memory_region_set_readonly(flash, TRUE)
    /\ Proceed("flash_readonly", "flash_map")
    /\ UNCHANGED <<big_endian, system_memory, cpu, sram, pic, uart,
                   runtime_vars>>

FlashMap ==
    /\ pc = "flash_map"
    /\ system_memory' = memory_region_add_subregion(system_memory, FLASH_BASE,
                                                    "flash", flash.size)
    /\ Proceed("flash_map", "sram_init")
    /\ UNCHANGED <<big_endian, cpu, flash, sram, pic, uart, runtime_vars>>

\* variant: the flash block copied for SRAM together with its image load
SramInit_CopiesProgram ==
    /\ pc = "sram_init"
    /\ \E ok \in BOOLEAN :
         IF ok THEN /\ sram' = memcpy(memory_region_init_ram(SRAM_SIZE),
                                      test_program, SizeofTestProgram,
                                      big_endian)
                    /\ Proceed("sram_init", "sram_map")
               ELSE /\ UNCHANGED sram
                    /\ Exit1("sram_init")
    /\ UNCHANGED <<big_endian, system_memory, cpu, flash, pic, uart,
                   runtime_vars>>

SramInit ==
    /\ pc = "sram_init"
    /\ \E ok \in BOOLEAN :
         IF ok THEN /\ sram' = memory_region_init_ram(SRAM_SIZE)
                    /\ Proceed("sram_init", "sram_map")
               ELSE /\ UNCHANGED sram
                    /\ Exit1("sram_init")
    /\ UNCHANGED <<big_endian, system_memory, cpu, flash, pic, uart,
                   runtime_vars>>

SramMap ==
    /\ pc = "sram_map"
    /\ system_memory' = memory_region_add_subregion(system_memory, SRAM_BASE,
                                                    "sram", sram.size)
    /\ Proceed("sram_map", "allocate_irqs")
    /\ UNCHANGED <<big_endian, cpu, flash, sram, pic, uart, runtime_vars>>

\* variant: the failure is reported but exit(1) is missing
AllocateIrqs_NoExit ==
    /\ pc = "allocate_irqs"
    /\ \E ok \in BOOLEAN :
         IF ok THEN /\ pic' = NUM_IRQS
                    /\ Proceed("allocate_irqs", "uart_init")
               ELSE /\ UNCHANGED <<pic, exit_status, hist>>
                    /\ failed' = "allocate_irqs"
                    /\ pc' = "uart_init"
    /\ UNCHANGED <<big_endian, system_memory, cpu, flash, sram, uart,
                   runtime_vars>>

AllocateIrqs ==
    /\ pc = "allocate_irqs"
    /\ \E ok \in BOOLEAN :
         IF ok THEN /\ pic' = NUM_IRQS
                    /\ Proceed("allocate_irqs", "uart_init")
               ELSE /\ UNCHANGED pic
                    /\ Exit1("allocate_irqs")
    /\ UNCHANGED <<big_endian, system_memory, cpu, flash, sram, uart,
                   runtime_vars>>

\* variant: a failing UART creation waits instead of exiting
UartInit_Suspends ==
    /\ pc = "uart_init"
    /\ \E ok \in BOOLEAN :
         IF ok THEN /\ uart' = [created |-> TRUE, irq |-> 0]
                    /\ system_memory' =
                          memory_region_add_subregion(system_memory, UART0_BASE,
                                                      "uart", UART_SIZE)
                    /\ Proceed("uart_init", "configure_cpu")
               ELSE /\ UNCHANGED <<uart, system_memory, exit_status, hist>>
                    /\ failed' = "uart_init"
                    /\ pc' = "uart_wait"
    /\ UNCHANGED <<big_endian, cpu, flash, sram, pic, runtime_vars>>

\* variant: the UART handed s->pic[1]
UartInit_Line1 ==
    /\ pc = "uart_init"
    /\ \E ok \in BOOLEAN :
         IF ok THEN /\ uart' = [created |-> TRUE, irq |-> 1]
                    /\ system_memory' =
                          memory_region_add_subregion(system_memory, UART0_BASE,
                                                      "uart", UART_SIZE)
                    /\ Proceed("uart_init", "configure_cpu")
               ELSE /\ UNCHANGED <<uart, system_memory>>
                    /\ Exit1("uart_init")
    /\ UNCHANGED <<big_endian, cpu, flash, sram, pic, runtime_vars>>

UartInit ==
    /\ pc = "uart_init"
    /\ \E ok \in BOOLEAN :
         IF ok THEN /\ uart' = [created |-> TRUE, irq |-> 0]
                    /\ system_memory' =
                          memory_region_add_subregion(system_memory, UART0_BASE,
                                                      "uart", UART_SIZE)
                    /\ Proceed("uart_init", "configure_cpu")
               ELSE /\ UNCHANGED <<uart, system_memory>>
                    /\ Exit1("uart_init")
    /\ UNCHANGED <<big_endian, cpu, flash, sram, pic, runtime_vars>>

\* variant: the configure block missing, the reset follows the UART directly
ConfigureCpu_SkipsToReset ==
    /\ pc = "configure_cpu"
    /\ \E preserve \in BOOLEAN : cpu' = cpu_reset(cpu, preserve)
    /\ Proceed("reset_cpu", "done")
    /\ UNCHANGED <<big_endian, system_memory, flash, sram, pic, uart,
                   runtime_vars>>

ConfigureCpu ==
    /\ pc = "configure_cpu"
    /\ cpu' = ConfigureBootState(cpu)
    /\ Proceed("configure_cpu", "reset_cpu")
    /\ UNCHANGED <<big_endian, system_memory, flash, sram, pic, uart,
                   runtime_vars>>

ResetCpu ==
    /\ pc = "reset_cpu"
    /\ \E preserve \in BOOLEAN : cpu' = cpu_reset(cpu, preserve)
    /\ Proceed("reset_cpu", "done")
    /\ UNCHANGED <<big_endian, system_memory, flash, sram, pic, uart,
                   runtime_vars>>

----------------------------------------------------------------------------
(* After bring-up: interrupt signals and memory accesses *)

Running == pc = "done" /\ nOps < MaxOps

\* qemu_set_irq(s->pic[n], level) for an allocated line
Signal ==
    /\ Running
    /\ \E n \in SignalLines, level \in Levels :
         /\ n < pic
         /\ cpu' = pic_handler(cpu, n, level)
         /\ lineLevel' = [lineLevel EXCEPT ![n] = (level # 0)]
         /\ lastSignal' = SignalRecord(n, level, lineLevel[n], "handled",
                                       cpu, cpu')
         /\ prevSignal' = lastSignal
    /\ nOps' = nOps + 1
    /\ UNCHANGED <<pc, exit_status, failed, hist, big_endian, system_memory,
                   flash, sram, pic, uart, lastAccess>>

\* qemu_set_irq(s->pic[n], level) with n outside the array: s->pic[n] reads
\* past the allocation, so the call may find a null line and do nothing, may
\* run the handler, or may fault
SignalOutOfRange ==
    /\ Running
    /\ \E n \in OutOfRangeLines, level \in Levels,
          outcome \in {"noop", "handled", "crash"} :
         /\ ~(0 <= n /\ n < pic)
         /\ cpu' = IF outcome = "handled" THEN pic_handler(cpu, n, level)
                                          ELSE cpu
         /\ pc' = IF outcome = "crash" THEN "crashed" ELSE pc
         /\ lastSignal' = SignalRecord(n, level, FALSE, outcome, cpu, cpu')
         /\ prevSignal' = lastSignal
    /\ nOps' = nOps + 1
    /\ UNCHANGED <<exit_status, failed, hist, big_endian, system_memory,
                   flash, sram, pic, uart, lineLevel, lastAccess>>

\* the subregion an access to addr is dispatched to
Target(addr) ==
    LET rs == RegionsAt(system_memory, addr)
    IN  IF rs = {} THEN "unassigned" ELSE (CHOOSE r \in rs : TRUE).name

Base(name) == (CHOOSE r \in system_memory : r.name = name).base

\* a one-byte store to addr through the address space
MemWrite ==
    /\ Running
    /\ \E addr \in AddrInputs, b \in ByteInputs :
         LET t == Target(addr)
             mr == IF t = "flash" THEN flash ELSE sram
             denied == t \in {"flash", "sram"} /\ mr.readonly
             res == IF t = "unassigned" THEN "DecodeError"
                    ELSE IF denied THEN "AccessViolation" ELSE "ok"
         IN  /\ flash' = IF t = "flash" /\ ~denied
                         THEN PokeByte(flash, AddrOffset(addr, Base(t)), b)
                         ELSE flash
             /\ sram' = IF t = "sram" /\ ~denied
                        THEN PokeByte(sram, AddrOffset(addr, Base(t)), b)
                        ELSE sram
             /\ lastAccess' = [op |-> "write", addr |-> addr, value |-> b,
                               result |-> res]
    /\ nOps' = nOps + 1
    /\ UNCHANGED <<pc, exit_status, failed, hist, big_endian, system_memory,
                   cpu, pic, uart, lineLevel, lastSignal, prevSignal>>

\* a one-byte load from addr through the address space
MemRead ==
    /\ Running
    /\ \E addr \in AddrInputs :
         LET t == Target(addr)
             v == IF t = "flash" THEN ReadByte(flash, AddrOffset(addr, Base(t)))
                  ELSE IF t = "sram"
                       THEN ReadByte(sram, AddrOffset(addr, Base(t)))
                       ELSE 0
             res == IF t = "unassigned" THEN "DecodeError" ELSE "ok"
         IN  lastAccess' = [op |-> "read", addr |-> addr, value |-> v,
                            result |-> res]
    /\ nOps' = nOps + 1
    /\ UNCHANGED <<pc, exit_status, failed, hist, big_endian, system_memory,
                   cpu, flash, sram, pic, uart, lineLevel, lastSignal,
                   prevSignal>>

----------------------------------------------------------------------------

Next ==
    \/ GetSystemMemory
    \/ CpuCreate
    \/ FlashInit
    \/ FlashLoad
    \/ FlashSetReadonly
    \/ FlashMap
    \/ SramInit
    \/ SramMap
    \/ AllocateIrqs
    \/ UartInit
    \/ ConfigureCpu
    \/ ResetCpu
    \/ Signal
    \/ SignalOutOfRange
    \/ MemWrite
    \/ MemRead

Spec == Init /\ [][Next]_vars

\* the steps of lpc2119_init
BringUp ==
    \/ GetSystemMemory
    \/ CpuCreate
    \/ FlashInit
    \/ FlashLoad
    \/ FlashSetReadonly
    \/ FlashMap
    \/ SramInit
    \/ SramMap
    \/ AllocateIrqs
    \/ UartInit
    \/ ConfigureCpu
    \/ ResetCpu

\* lpc2119_init is synchronous, single-threaded code: a step that can run
\* does run
FairSpec == Init /\ [][Next]_vars /\ WF_vars(BringUp)

\* the same machine when every signal is made on an allocated line
NextLines ==
    \/ GetSystemMemory
    \/ CpuCreate
    \/ FlashInit
    \/ FlashLoad
    \/ FlashSetReadonly
    \/ FlashMap
    \/ SramInit
    \/ SramMap
    \/ AllocateIrqs
    \/ UartInit
    \/ ConfigureCpu
    \/ ResetCpu
    \/ Signal
    \/ MemWrite
    \/ MemRead

SpecLines == Init /\ [][NextLines]_vars

----------------------------------------------------------------------------
(* Vocabulary of the properties *)

\* the steps of lpc2119_init in program order
StepOrder ==
    << "get_system_memory", "cpu_create", "flash_init", "flash_load",
       "flash_readonly", "flash_map", "sram_init", "sram_map",
       "allocate_irqs", "uart_init", "configure_cpu", "reset_cpu" >>

Done(step) == \E i \in 1 .. Len(hist) : hist[i] = step

\* lpc2119_init has returned: its last step, the reset, is done
Completed == Done("reset_cpu")

\* every offset of the region outside [0, n) reads as zero (only the offsets
\* kept in data can hold a non-zero byte)
ZeroFrom(mr, n) ==
    \A off \in DOMAIN mr.data : off >= n => ReadByte(mr, off) = 0

\* the most recent signal reached pic_handler on an allocated line
HandledInRange(sig) == sig.outcome = "handled" /\ sig.n \in Lines

----------------------------------------------------------------------------
\* C1: when bring-up has completed (the reset has returned) the program
\* counter is the flash base 0x00000000 and the stack pointer is
\* SRAM base + SRAM size = 0x40004000.
C1_BootRegistersInEffect ==
    Completed => /\ cpu.regs15 = W32(0, 0)
                 /\ cpu.regs13 = W32(16384, 16384)

\* C2: from the configure step on, and so when bring-up has completed, the
\* processor is in Supervisor mode with IRQ and FIQ both masked; the reset
\* does not change the mode or clear a mask bit.
C2_SupervisorMasked ==
    Done("configure_cpu") =>
        /\ CpsrMode(cpu.cpsr) = ARM_CPU_MODE_SVC
        /\ CpsrHas(cpu.cpsr, CPSR_I)
        /\ CpsrHas(cpu.cpsr, CPSR_F)

C2_Witness ==
    /\ Completed
    /\ pc = "done"
    /\ cpu.cpsr = ARM_CPU_MODE_SVC + CPSR_F + CPSR_I

\* C3: a signal on an allocated line invokes the target's
\* assert operation only when the line goes from false to true:
\* signal(line, true) followed at once by signal(line, true) invokes assert
\* exactly once, and a repeated signal(line, false) does not invoke deassert
\* again.
C3_OnlyOnTransition ==
    HandledInRange(lastSignal) =>
        /\ lastSignal.asserts > 0 =>
              (~lastSignal.was /\ lastSignal.level # 0)
        /\ (/\ HandledInRange(prevSignal)
            /\ prevSignal.n = lastSignal.n
            /\ prevSignal.level # 0
            /\ lastSignal.level # 0)
           => prevSignal.asserts + lastSignal.asserts = 1
        /\ (/\ HandledInRange(prevSignal)
            /\ prevSignal.n = lastSignal.n
            /\ prevSignal.level = 0
            /\ lastSignal.level = 0)
           => lastSignal.deasserts = 0

\* C4: on a line at level false, signal(line, true) followed by
\* signal(line, false) invokes assert exactly once, then deassert exactly
\* once, and leaves the hardware interrupt not pending.
C4_RaiseThenLower ==
    (/\ HandledInRange(prevSignal)
     /\ HandledInRange(lastSignal)
     /\ prevSignal.n = lastSignal.n
     /\ ~prevSignal.was
     /\ prevSignal.level # 0
     /\ lastSignal.level = 0)
    => /\ prevSignal.asserts = 1
       /\ prevSignal.deasserts = 0
       /\ lastSignal.asserts = 0
       /\ lastSignal.deasserts = 1
       /\ ~cpu.hard
       /\ ~lineLevel[lastSignal.n]

C4_Witness ==
    /\ HandledInRange(prevSignal)
    /\ HandledInRange(lastSignal)
    /\ prevSignal.n = lastSignal.n
    /\ ~prevSignal.was
    /\ prevSignal.level # 0
    /\ lastSignal.level = 0
    /\ cpu.nInterrupt = 1
    /\ cpu.nResetInterrupt = 1

\* C5: in every state during and after bring-up the intervals
\* [base, base + size) of the mapped regions are pairwise disjoint and no
\* region is mapped twice: flash is [0x00000000, 0x00020000), SRAM is
\* [0x40000000, 0x40004000) and the UART window starts at 0xE000C000.
C5_RegionsDisjoint ==
    /\ \A r1, r2 \in system_memory :
          /\ r1 # r2 => ~Overlap(r1, r2)
          /\ r1.name = r2.name => r1 = r2
    /\ \A r \in system_memory :
          /\ r.size > 0
          /\ r.name = "flash" =>
                (r.base = W32(0, 0) /\ AddrAdd(r.base, r.size) = W32(2, 0))
          /\ r.name = "sram" =>
                (/\ r.base = W32(16384, 0)
                 /\ AddrAdd(r.base, r.size) = W32(16384, 16384))
          /\ r.name = "uart" => r.base = W32(57344, 49152)

C5_Witness ==
    /\ Completed
    /\ {r.name : r \in system_memory} = {"flash", "sram", "uart"}
    /\ Cardinality(system_memory) = 3

\* the content lpc2119_init loads into flash
LoadedImage ==
    memcpy(memory_region_init_ram(FLASH_SIZE), test_program,
           SizeofTestProgram, big_endian).data

\* C6: once the image is loaded and flash is mapped, every write to an
\* address of the flash region fails with AccessViolation and changes no
\* byte, and a read at any offset returns the loaded content.
C6_FlashImmutable ==
    /\ Done("flash_load") => flash.data = LoadedImage
    /\ (lastAccess.op = "write" /\ Target(lastAccess.addr) = "flash")
          => lastAccess.result = "AccessViolation"
    /\ (lastAccess.op = "read" /\ Target(lastAccess.addr) = "flash")
          => /\ lastAccess.result = "ok"
             /\ lastAccess.value =
                   ReadByte([data |-> LoadedImage],
                            AddrOffset(lastAccess.addr, FLASH_BASE))

C6_Witness ==
    /\ lastAccess.op = "write"
    /\ Target(lastAccess.addr) = "flash"
    /\ lastAccess.value #
          ReadByte(flash, AddrOffset(lastAccess.addr, FLASH_BASE))
    /\ lastAccess.result = "AccessViolation"

\* C7: after bring-up the first 16 bytes of flash hold the four words
\* 0xe3a00000, 0xe3a01001, 0xe5801000, 0xeafffffe and every other byte of
\* the 128 KiB store, offsets 16 to 131071, is zero.
C7_FlashContent ==
    Completed =>
        /\ flash.size = 131072
        /\ ReadWord(flash, 0, big_endian) = W32(58272, 0)
        /\ ReadWord(flash, 4, big_endian) = W32(58272, 4097)
        /\ ReadWord(flash, 8, big_endian) = W32(58752, 4096)
        /\ ReadWord(flash, 12, big_endian) = W32(60159, 65534)
        /\ ZeroFrom(flash, 16)
        /\ \A off \in DOMAIN flash.data : off \in 0 .. 15

C7_Witness ==
    /\ Completed
    /\ pc = "done"
    /\ Cardinality(DOMAIN flash.data) > 8
    /\ ReadWord(flash, 12, big_endian) = test_program[4]

\* the steps that come before step in program order
StepsBefore(step) ==
    LET i == CHOOSE k \in 1 .. Len(StepOrder) : StepOrder[k] = step
    IN  SubSeq(StepOrder, 1, i - 1)

\* the steps that can fail
FailingSteps ==
    {"get_system_memory", "cpu_create", "flash_init", "sram_init",
     "allocate_irqs", "uart_init"}

\* C8: bring-up is all-or-nothing: a failing step is reported at once and
\* ends the run in exit(1); no later step runs, the boot registers are never
\* configured and the reset is never triggered.
C8_AllOrNothing ==
    /\ failed # "none" =>
          /\ pc = "exit"
          /\ exit_status = 1
          /\ failed \in FailingSteps
          /\ hist = StepsBefore(failed)
          /\ ~Done("configure_cpu")
          /\ ~Done("reset_cpu")
          /\ cpu.regs13 # U32Add(SRAM_BASE, SRAM_SIZE)
          /\ nOps = 0
    /\ pc = "exit" <=> failed # "none"
    /\ exit_status # -1 <=> failed # "none"
    /\ Completed => failed = "none"

C8_Witness ==
    /\ pc = "exit"
    /\ failed = "uart_init"
    /\ exit_status = 1
    /\ Done("sram_map")

\* C9: a signal with a line index outside [0, 32) fails with
\* InvalidLineIndex, invokes neither assert nor deassert and leaves every
\* line's level unchanged.
C9_OutOfRangeRejected ==
    (lastSignal.outcome # "none" /\ lastSignal.n \notin Lines)
    => /\ lastSignal.outcome = "InvalidLineIndex"
       /\ lastSignal.asserts = 0
       /\ lastSignal.deasserts = 0

\* C10: SRAM reads as zero at every offset in [0, 16384) once created, no
\* bring-up step writes to it, and it is all-zero and read-write when
\* bring-up completes.
C10_SramZero ==
    (sram.init /\ nOps = 0) =>
        /\ sram.size = 16384
        /\ ~sram.readonly
        /\ ZeroFrom(sram, 0)
        /\ \A off \in 0 .. (sram.size - 1) : ReadByte(sram, off) = 0

C10_Witness ==
    /\ Completed
    /\ pc = "done"
    /\ nOps = 0
    /\ sram.init
    /\ flash.data # NoBytes

Positions(step) == {i \in 1 .. Len(hist) : hist[i] = step}

\* step a was completed, and completed before every completion of step b
Before(a, b) ==
    \A i \in Positions(b) : \E j \in Positions(a) : j < i

\* the processor's lifecycle state as the board drives it
CpuLifecycle ==
    IF Done("reset_cpu") THEN "Reset"
    ELSE IF Done("configure_cpu") THEN "BootConfigured"
    ELSE IF cpu.created THEN "Created"
    ELSE "Uninitialized"

\* C13: the processor goes Uninitialized -> Created -> BootConfigured ->
\* Reset with no step skipped or reordered: the reset is triggered only
\* after the processor was created and its PC, SP and status register were
\* written, never on a missing processor, and at most once.
C13_Lifecycle ==
    /\ cpu.created <=> Done("cpu_create")
    /\ Cardinality(Positions("cpu_create")) <= 1
    /\ Cardinality(Positions("configure_cpu")) <= 1
    /\ Cardinality(Positions("reset_cpu")) <= 1
    /\ Before("cpu_create", "configure_cpu")
    /\ Before("configure_cpu", "reset_cpu")
    /\ CpuLifecycle = "BootConfigured" =>
          /\ pc = "reset_cpu"
          /\ cpu.created
          /\ cpu = ConfigureBootState(cpu)
    /\ CpuLifecycle = "Reset" => (cpu.created /\ Done("configure_cpu"))
    /\ pc = "reset_cpu" => CpuLifecycle = "BootConfigured"
    /\ CpuLifecycle = "Uninitialized" =>
          pc \in {"get_system_memory", "cpu_create", "exit"}

C13_Witness ==
    /\ CpuLifecycle = "Reset"
    /\ hist = StepOrder
    /\ nOps = 0

\* C14: the 32 lines are OR-ed onto the processor's hardware interrupt
\* input: after any sequence of signals the interrupt is pending exactly
\* when at least one line's most recently signalled level is true; lowering
\* one line while another is still high does not clear it.
C14_OrOfLines ==
    Completed => (cpu.hard <=> \E l \in Lines : lineLevel[l])

\* flash is reachable through the system address space
FlashMapped == \E r \in system_memory : r.name = "flash"

\* C15: the image is copied into flash exactly once, before flash is made
\* read-only, and flash is made read-only before it is mapped: flash is
\* never reachable through the address space while writable or not yet
\* loaded, and no load follows the sealing.
C15_LoadSealMap ==
    /\ Cardinality(Positions("flash_load")) <= 1
    /\ Cardinality(Positions("flash_readonly")) <= 1
    /\ Before("flash_init", "flash_load")
    /\ Before("flash_load", "flash_readonly")
    /\ Before("flash_readonly", "flash_map")
    /\ FlashMapped <=> Done("flash_map")
    /\ flash.readonly <=> Done("flash_readonly")
    /\ flash.readonly => (Done("flash_load") /\ flash.data = LoadedImage)
    /\ FlashMapped =>
          /\ flash.readonly
          /\ Done("flash_load")
          /\ flash.data = LoadedImage
          /\ flash.data # NoBytes
    /\ Completed => Cardinality(Positions("flash_load")) = 1

C15_Witness ==
    /\ pc = "sram_init"
    /\ FlashMapped
    /\ flash.readonly
    /\ hist = SubSeq(StepOrder, 1, 6)

\* C16: the steps respect their dependencies: the interrupt lines are
\* allocated only after the processor was created (they are never bound to
\* a missing processor), the UART is wired to line 0 only after the lines
\* were allocated, the boot registers are configured only after flash, SRAM,
\* the lines and the UART are in place, and the reset is the last step.
C16_Dependencies ==
    /\ Before("cpu_create", "allocate_irqs")
    /\ pic > 0 => cpu.created
    /\ Before("allocate_irqs", "uart_init")
    /\ uart.created => (pic = NUM_IRQS /\ uart.irq \in 0 .. (pic - 1))
    /\ \A dep \in {"flash_map", "sram_map", "allocate_irqs", "uart_init"} :
          Before(dep, "configure_cpu")
    /\ Done("configure_cpu") =>
          /\ flash.init /\ flash.readonly
          /\ sram.init
          /\ pic = NUM_IRQS
          /\ uart.created
          /\ {r.name : r \in system_memory} = {"flash", "sram", "uart"}
    /\ Before("configure_cpu", "reset_cpu")
    /\ Done("reset_cpu") =>
          /\ hist[Len(hist)] = "reset_cpu"
          /\ \A i \in 1 .. Len(StepOrder) : Done(StepOrder[i])

C16_Witness ==
    /\ pc = "configure_cpu"
    /\ cpu.created
    /\ pic = NUM_IRQS
    /\ uart.created
    /\ uart.irq = 0

\* C17: the interrupt callback keeps no per-line state and ignores the line
\* index: after a signal on any of the 32 lines the hardware interrupt is
\* pending exactly when that call's level was non-zero, whichever line it
\* was made on and whatever the lines' levels are, and the call invoked
\* either assert or deassert.
C17_LastLevelWins ==
    /\ HandledInRange(lastSignal) =>
          /\ cpu.hard <=> (lastSignal.level # 0)
          /\ lastSignal.asserts + lastSignal.deasserts = 1
    /\ cpu.created =>
          \A n \in Lines, level \in Levels :
             /\ pic_handler(cpu, n, level) = pic_handler(cpu, 0, level)
             /\ pic_handler(cpu, n, level).hard = (level # 0)

C17_Witness ==
    /\ HandledInRange(prevSignal)
    /\ HandledInRange(lastSignal)
    /\ prevSignal.n # lastSignal.n
    /\ prevSignal.level # 0
    /\ lastSignal.level = 0
    /\ lineLevel[prevSignal.n]
    /\ ~cpu.hard

\* bring-up is over: lpc2119_init returned or the process exited
Final == pc = "done" \/ pc = "exit"

\* C18: bring-up always terminates: every run reaches exactly one of two
\* final states, completed (all steps done, the reset triggered) or aborted
\* (exit with status 1); no step is retried and bring-up never waits.
C18_Terminates ==
    /\ <>Final
    /\ [](pc = "done" => (Completed /\ hist = StepOrder /\ exit_status = -1))
    /\ [](pc = "exit" => (~Completed /\ exit_status = 1))
    /\ [](\A i \in 1 .. Len(StepOrder) :
             Cardinality(Positions(StepOrder[i])) <= 1)
    /\ [](pc \notin {"done", "exit", "crashed"} => ENABLED BringUp)

C18_Witness ==
    /\ pc = "exit"
    /\ exit_status = 1
    /\ failed = "sram_init"
    /\ Len(hist) = 6

====
